---- MODULE Spec2Model ----
(***************************************************************************)
(* Token reduction benchmark runner (src/benchmarks/run-benchmarks.py),    *)
(* and two of the async examples (src/examples/async-examples.py), each    *)
(* under a specification of its own further down: rate_limiting_example    *)
(* (SpecSem) and AsyncDatabaseConnection (SpecDb).                         *)
(*                                                                         *)
(* One run of main() is modelled as a sequential process: discovery, the   *)
(* evaluation loop (one scenario file per step), the console report, the   *)
(* JSON export and the exit.  The file system (the scenarios directory,    *)
(* the descriptors in it, the corpus files they reference and a results    *)
(* file that an earlier run may have left) is chosen in Init and is only   *)
(* changed by export_json.                                                 *)
(*                                                                         *)
(* Numbers: token counts are integers.  Python computes the reduction and  *)
(* the average in binary floating point; the model computes them as exact  *)
(* rationals in lowest terms ([num, den], den > 0), i.e. the value the     *)
(* float approximates.                                                     *)
(***************************************************************************)
EXTENDS Integers, Sequences, FiniteSets, TLC

\* Largest number of scenario descriptor files in the scenarios directory.
MaxScenarios == 2

\* asyncio.Semaphore(2) in rate_limiting_example.
SemaphoreLimit == 2

\* rate_limiting_example creates one task per i in range(1, 6).
NumTasks == 5

Tasks == 1..NumTasks

\* Largest number of calls made on one AsyncDatabaseConnection.
MaxCalls == 4

\* Longest generated string handed to validate_email.
MaxLen == 4

----------------------------------------------------------------------------
(* Exact rational arithmetic standing for Python's float arithmetic.       *)

Abs(n) == IF n < 0 THEN -n ELSE n

RECURSIVE GCD(_, _)
GCD(a, b) == IF b = 0 THEN a ELSE GCD(b, a % b)

\* n / d for d > 0, in lowest terms.
Rat(n, d) == LET g == GCD(Abs(n), d) IN [num |-> n \div g, den |-> d \div g]

RatAdd(a, b) == Rat(a.num * b.den + b.num * a.den, a.den * b.den)

RatDivInt(a, n) == Rat(a.num, a.den * n)

RatMulInt(a, n) == Rat(a.num * n, a.den)

\* a >= e for a rational a and an integer e.
RatGeqInt(a, e) == a.num >= e * a.den

\* f"{x:.1f}": x rounded to one decimal place (ties to even), in tenths.
Format1f(x) ==
    LET t == 10 * x.num
        q == t \div x.den
        r == t - q * x.den
    IN  IF 2 * r < x.den THEN q
        ELSE IF 2 * r > x.den THEN q + 1
        ELSE IF q % 2 = 0 THEN q ELSE q + 1

----------------------------------------------------------------------------
(* The environment: corpus files and scenario descriptors.                 *)

\* Token count of every readable corpus file, as the tokenizer reports it
\* (deterministic: same text, same count).  "gone.md" does not exist.
FileTokens == [p \in {"small.md", "large.md"} |->
                 IF p = "small.md" THEN 200 ELSE 1000]

\* File lists a descriptor may carry in baseline.files / skills.files.
FileLists == { <<>>, <<"large.md">>, <<"small.md", "small.md">>,
               <<"large.md", "gone.md">> }

\* Values of expectedReduction.
Thresholds == {60, 70}

\* Names of the descriptor files benchmarks/scenarios/<n>.json; the order of
\* the naturals stands for the order sorted() gives the paths.
ScenarioFileNames == 1..MaxScenarios

\* The descriptor stored in file f: its name identifies the file.
Descriptor(f, b, s, e) ==
    [name |-> <<"scenario", f>>, description |-> <<"description", f>>,
     baseline |-> [files |-> b], skills |-> [files |-> s],
     expectedReduction |-> e]

\* What a results file left by an earlier run (over other scenarios) holds.
StaleExport ==
    [results |-> << [scenario |-> <<"scenario", 0>>,
                     description |-> <<"description", 0>>,
                     baseline_tokens |-> 1000, skill_tokens |-> 400,
                     reduction_percentage |-> Rat(60, 1),
                     expected_reduction |-> 60,
                     meets_expectation |-> TRUE] >>,
     summary |-> [total_scenarios |-> 1, passed |-> 1,
                  average_reduction |-> Rat(60, 1)]]

----------------------------------------------------------------------------
VARIABLES
    dir_exists,      \* benchmarks/scenarios exists
    scenarios,       \* descriptor file name -> descriptor (the *.json files)
    export_file,     \* benchmarks/results.json: <<>> absent, <<content>> present
    export_at_start, \* history: export_file as main() found it
    pc,              \* position of main(): "discover", "loop", "report",
                     \* "export", "exit", "done"
    scenario_files,  \* main's sorted list of descriptor files
    next_idx,        \* index in scenario_files of the next loop iteration
    results,         \* main's result list
    console,         \* what was printed so far, one record per print group
    uncaught,        \* "" or the exception that ended the process
    exit_code,       \* {} while running, {c} once the process ended with c
    tokenized,       \* history: count_tokens calls that returned in this run
    previous,        \* history: <<>> in the first run, in a second run
                     \* <<outcome of the first run>>
    \* rate_limiting_example (src/examples/async-examples.py)
    sem_value,       \* the semaphore's counter
    sem_waiters,     \* tasks blocked in acquire(), oldest first
    task_pc,         \* task -> "start", "waiting", "woken", "fetching",
                     \* "sleeping", "done"
    \* AsyncDatabaseConnection (src/examples/async-examples.py)
    connected,       \* self.connected
    db_phase,        \* "idle", or the call suspended at its await
    db_log,          \* history: one entry per call made so far
    \* test_email_validation (src/examples/testing-examples.py)
    email,           \* the parameter email, as a sequence of characters
    is_valid,        \* {b}: the parameter is_valid; {}: no test case
    test_result,     \* {} before validate_email returned, then {its value}
    test_pc          \* "setup", "called", "passed", "failed"

\* The variables of the two async examples.
asyncvars == <<sem_value, sem_waiters, task_pc, connected, db_phase, db_log>>

\* The variables of the benchmark runner.
benchvars == <<dir_exists, scenarios, export_file, export_at_start, pc,
               scenario_files, next_idx, results, console, uncaught,
               exit_code, tokenized, previous>>

\* The variables of test_email_validation.
testvars == <<email, is_valid, test_result, test_pc>>

vars == <<benchvars, asyncvars, testvars>>

\* What no step of main() assigns: the inputs on the file system, the
\* history of the process start, and the other programs' variables.
fsvars == <<dir_exists, scenarios, export_at_start, previous, asyncvars,
            testvars>>

----------------------------------------------------------------------------
(* Results of calls that may raise: Return(v) or Raise(exception).         *)

Return(v) == [raised |-> FALSE, value |-> v, error |-> ""]

Raise(e) == [raised |-> TRUE, value |-> 0, error |-> e]

----------------------------------------------------------------------------
(* count_tokens and run_scenario.                                          *)

\* count_tokens(file_path): reading a file that does not exist raises.
count_tokens(file_path) ==
    IF file_path \in DOMAIN FileTokens
    THEN Return(FileTokens[file_path])
    ELSE Raise("FileNotFoundError")

\* sum(count_tokens(f) for f in files): left to right from 0, the first
\* exception ends the sum.
RECURSIVE sum_tokens_from(_, _)
sum_tokens_from(acc, files) ==
    IF files = <<>> THEN Return(acc)
    ELSE LET c == count_tokens(Head(files))
         IN  IF c.raised THEN c
             ELSE sum_tokens_from(acc + c.value, Tail(files))

\* Mutant of sum_tokens: a path listed more than once is counted once.
sum_tokens_Distinct(files) ==
    LET RECURSIVE distinct(_)
        distinct(fs) ==
            IF fs = <<>> THEN <<>>
            ELSE LET rest == distinct(SubSeq(fs, 1, Len(fs) - 1))
                     last == fs[Len(fs)]
                 IN  IF \E j \in 1..Len(rest) : rest[j] = last
                     THEN rest ELSE Append(rest, last)
    IN  sum_tokens_from(0, distinct(files))

sum_tokens(files) == sum_tokens_from(0, files)

\* Mutant of Reduction: the operands of the subtraction are swapped.
Reduction_Swapped(baseline_tokens, skill_tokens) ==
    IF baseline_tokens > 0
    THEN RatMulInt(Rat(skill_tokens - baseline_tokens, baseline_tokens), 100)
    ELSE Rat(0, 1)

\* reduction = ((baseline_tokens - skill_tokens) / baseline_tokens) * 100
\*             if baseline_tokens > 0 else 0
Reduction(baseline_tokens, skill_tokens) ==
    IF baseline_tokens > 0
    THEN RatMulInt(Rat(baseline_tokens - skill_tokens, baseline_tokens), 100)
    ELSE Rat(0, 1)

\* Mutant of MeetsExpectation: > in place of >=.
MeetsExpectation_Strict(reduction, expectedReduction) ==
    reduction.num > expectedReduction * reduction.den

\* reduction >= scenario["expectedReduction"]
MeetsExpectation(reduction, expectedReduction) ==
    RatGeqInt(reduction, expectedReduction)

\* The dict run_scenario returns.
ScenarioResult(scenario, baseline_tokens, skill_tokens) ==
    LET reduction == Reduction(baseline_tokens, skill_tokens)
    IN  [scenario |-> scenario.name,
         description |-> scenario.description,
         baseline_tokens |-> baseline_tokens,
         skill_tokens |-> skill_tokens,
         reduction_percentage |-> reduction,
         expected_reduction |-> scenario.expectedReduction,
         meets_expectation |->
             MeetsExpectation(reduction, scenario.expectedReduction)]

\* json.loads(text): text that is no JSON document raises.
json_loads(text) ==
    IF "invalid_json" \in DOMAIN text
    THEN Raise("JSONDecodeError")
    ELSE Return(text)

\* scenario[key]["files"] can be evaluated without a KeyError.
HasFiles(scenario, key) ==
    /\ key \in DOMAIN scenario
    /\ "files" \in DOMAIN scenario[key]

\* The keys the returned dict reads from the descriptor.
ResultKeys == {"name", "description", "expectedReduction"}

\* Mutant of run_scenario_of: the division has no baseline_tokens > 0 guard.
run_scenario_of_Unguarded(text) ==
    LET loaded == json_loads(text)
        d == loaded.value
    IN  IF loaded.raised THEN loaded
        ELSE IF ~HasFiles(d, "baseline") THEN Raise("KeyError")
        ELSE LET b == sum_tokens(d.baseline.files)
        IN  IF b.raised THEN b
        ELSE IF ~HasFiles(d, "skills") THEN Raise("KeyError")
        ELSE LET s == sum_tokens(d.skills.files)
        IN  IF s.raised THEN s
        ELSE IF b.value = 0 THEN Raise("ZeroDivisionError")
        ELSE IF ~(ResultKeys \subseteq DOMAIN d) THEN Raise("KeyError")
        ELSE Return(ScenarioResult(d, b.value, s.value))

\* run_scenario over the text of the scenario file, in the order the code
\* evaluates: json.loads, the baseline sum, the skills sum, the reduction,
\* then the dict with scenario["name"], ["description"] and
\* ["expectedReduction"]; a missing key raises KeyError.
run_scenario_of(text) ==
    LET loaded == json_loads(text)
        d == loaded.value
    IN  IF loaded.raised THEN loaded
        ELSE IF ~HasFiles(d, "baseline") THEN Raise("KeyError")
        ELSE LET b == sum_tokens(d.baseline.files)
        IN  IF b.raised THEN b
        ELSE IF ~HasFiles(d, "skills") THEN Raise("KeyError")
        ELSE LET s == sum_tokens(d.skills.files)
        IN  IF s.raised THEN s
        ELSE IF ~(ResultKeys \subseteq DOMAIN d) THEN Raise("KeyError")
        ELSE Return(ScenarioResult(d, b.value, s.value))

\* The number of leading files of the list that count_tokens can read.
RECURSIVE readable_prefix(_)
readable_prefix(files) ==
    IF files = <<>> \/ count_tokens(Head(files)).raised THEN 0
    ELSE 1 + readable_prefix(Tail(files))

\* The number of count_tokens calls that return while run_scenario runs over
\* the text of a scenario file.
tokenized_by(text) ==
    IF json_loads(text).raised \/ ~HasFiles(text, "baseline") THEN 0
    ELSE LET nb == readable_prefix(text.baseline.files)
         IN  IF nb < Len(text.baseline.files) \/ ~HasFiles(text, "skills")
             THEN nb
             ELSE nb + readable_prefix(text.skills.files)

run_scenario(scenario_file) == run_scenario_of(scenarios[scenario_file])

----------------------------------------------------------------------------
(* print_results and export_json.                                          *)

\* sum(r["reduction_percentage"] for r in results)
RECURSIVE sum_reduction_from(_, _)
sum_reduction_from(acc, rs) ==
    IF rs = <<>> THEN acc
    ELSE sum_reduction_from(RatAdd(acc, Head(rs).reduction_percentage),
                            Tail(rs))

sum_reduction(rs) == sum_reduction_from(Rat(0, 1), rs)

\* sum(1 for r in results if r['meets_expectation'])
count_passed(rs) ==
    Cardinality({i \in 1..Len(rs) : rs[i].meets_expectation})

\* The block print_results prints for one result.
ScenarioBlock(result) ==
    [kind |-> "scenario",
     data |-> [scenario |-> result.scenario,
               description |-> result.description,
               baseline |-> result.baseline_tokens,
               skills |-> result.skill_tokens,
               reduction |-> Format1f(result.reduction_percentage),
               expected |-> Format1f(Rat(result.expected_reduction, 1)),
               status |-> IF result.meets_expectation
                          THEN "PASS" ELSE "FAIL"]]

\* Mutant of SummaryBlock: the overall status passes when any result passed.
SummaryBlock_AnyPassed(rs) ==
    LET avg_reduction == RatDivInt(sum_reduction(rs), Len(rs))
        passed == count_passed(rs)
    IN  [kind |-> "summary",
         data |-> [total |-> Len(rs),
                   passed |-> passed,
                   average |-> Format1f(avg_reduction),
                   status |-> IF passed > 0
                              THEN "ALL PASS" ELSE "SOME FAILED"]]

\* The summary block print_results prints (len(rs) > 0).
SummaryBlock(rs) ==
    LET avg_reduction == RatDivInt(sum_reduction(rs), Len(rs))
        passed == count_passed(rs)
    IN  [kind |-> "summary",
         data |-> [total |-> Len(rs),
                   passed |-> passed,
                   average |-> Format1f(avg_reduction),
                   status |-> IF passed = Len(rs)
                              THEN "ALL PASS" ELSE "SOME FAILED"]]

\* print_results(rs): what it prints, and whether the division by len(rs)
\* raised after the header and the blocks were printed.
print_results(rs) ==
    LET blocks == <<[kind |-> "report_header", data |-> <<>>]>>
                  \o [i \in 1..Len(rs) |-> ScenarioBlock(rs[i])]
    IN  IF Len(rs) = 0
        THEN [raised |-> TRUE, printed |-> blocks,
              error |-> "ZeroDivisionError"]
        ELSE [raised |-> FALSE, printed |-> Append(blocks, SummaryBlock(rs)),
              error |-> ""]

\* Mutant of export_json: the average is taken over all discovered
\* scenarios, the skipped ones included.
export_json_AverageOverAll(rs) ==
    IF Len(rs) = 0 THEN Raise("ZeroDivisionError")
    ELSE Return([results |-> rs,
                 summary |->
                    [total_scenarios |-> Len(rs),
                     passed |-> count_passed(rs),
                     average_reduction |->
                         RatDivInt(sum_reduction(rs), Len(scenario_files))]])

\* The dict export_json serialises; building it divides by len(rs).
export_json(rs) ==
    IF Len(rs) = 0 THEN Raise("ZeroDivisionError")
    ELSE Return([results |-> rs,
                 summary |->
                    [total_scenarios |-> Len(rs),
                     passed |-> count_passed(rs),
                     average_reduction |->
                         RatDivInt(sum_reduction(rs), Len(rs))]])

----------------------------------------------------------------------------
(* Discovery helpers.                                                      *)

\* The orders in which glob may yield the files of a directory.
GlobOrders(S) ==
    {s \in [1..Cardinality(S) -> S] :
        \A i, j \in 1..Cardinality(S) : i # j => s[i] # s[j]}

\* sorted(): insertion of each element into an ascending list.
RECURSIVE InsertSorted(_, _)
InsertSorted(x, s) ==
    IF s = <<>> THEN <<x>>
    ELSE IF x <= Head(s) THEN <<x>> \o s
    ELSE <<Head(s)>> \o InsertSorted(x, Tail(s))

\* Mutant of sorted: the glob order is kept.
sorted_Unsorted(s) == s

RECURSIVE sorted(_)
sorted(s) == IF s = <<>> THEN <<>> ELSE InsertSorted(Head(s), sorted(Tail(s)))

----------------------------------------------------------------------------
(* Initial states: any file system within the bounds, main() not started.  *)

DescriptorChoices == [b : FileLists, s : FileLists, e : Thresholds]

\* The directory holds the descriptor files S, file f carrying the choice c[f].
ScenarioDir(S, c) == [f \in S |-> Descriptor(f, c[f].b, c[f].s, c[f].e)]

\* The process of main() has just started.
MainNotStarted ==
    /\ pc = "discover"
    /\ scenario_files = <<>>
    /\ next_idx = 1
    /\ results = <<>>
    /\ console = <<>>
    /\ uncaught = ""
    /\ exit_code = {}
    /\ tokenized = 0

\* The async examples are not run: their objects are as constructed.
AsyncNotRun ==
    /\ sem_value = SemaphoreLimit
    /\ sem_waiters = <<>>
    /\ task_pc = [t \in Tasks |-> "start"]
    /\ connected = FALSE
    /\ db_phase = "idle"
    /\ db_log = <<>>

\* test_email_validation is not run.
TestNotRun ==
    /\ email = <<>>
    /\ is_valid = {}
    /\ test_result = {}
    /\ test_pc = "setup"

Init ==
    /\ dir_exists \in BOOLEAN
    /\ \E S \in SUBSET ScenarioFileNames :
         /\ ~dir_exists => S = {}
         /\ \E c \in [S -> DescriptorChoices] : scenarios = ScenarioDir(S, c)
    /\ export_file \in {<<>>, <<StaleExport>>}
    /\ export_at_start = export_file
    /\ previous = <<>>
    /\ MainNotStarted
    /\ AsyncNotRun
    /\ TestNotRun

----------------------------------------------------------------------------
(* main(), one action per step.                                            *)

\* sys.exit(code)
SysExit(code) ==
    /\ exit_code' = {code}
    /\ pc' = "done"

\* An exception nobody catches: the interpreter prints the traceback and
\* the process ends with status 1.
Crash(e) ==
    /\ uncaught' = e
    /\ exit_code' = {1}
    /\ pc' = "done"

\* if not scenarios_dir.exists(): print the error, sys.exit(1)
MissingDirectory ==
    /\ pc = "discover"
    /\ ~dir_exists
    /\ console' = Append(console, [kind |-> "error_no_directory", data |-> <<>>])
    /\ SysExit(1)
    /\ UNCHANGED <<fsvars, tokenized, export_file, scenario_files, next_idx,
                   results, uncaught>>

\* Mutant of NoScenarioFiles: the emptiness check is missing and main goes
\* on to the report with no results.
NoScenarioFiles_FallThrough ==
    /\ pc = "discover"
    /\ dir_exists
    /\ \E listing \in GlobOrders(DOMAIN scenarios) :
         /\ sorted(listing) = <<>>
         /\ scenario_files' = sorted(listing)
    /\ console' = Append(console, [kind |-> "found", data |-> 0])
    /\ results' = <<>>
    /\ pc' = "report"
    /\ UNCHANGED <<fsvars, tokenized, export_file, next_idx, uncaught,
                   exit_code>>

\* scenario_files = sorted(glob("*.json")) is empty: print the error,
\* sys.exit(1)
NoScenarioFiles ==
    /\ pc = "discover"
    /\ dir_exists
    /\ \E listing \in GlobOrders(DOMAIN scenarios) :
         /\ sorted(listing) = <<>>
         /\ scenario_files' = sorted(listing)
    /\ console' = Append(console, [kind |-> "error_no_scenarios", data |-> <<>>])
    /\ SysExit(1)
    /\ UNCHANGED <<fsvars, tokenized, export_file, next_idx, results, uncaught>>

\* Mutant of Discover: the result list starts from the results an earlier
\* export left in benchmarks/results.json.
Discover_ResumesFromExport ==
    /\ pc = "discover"
    /\ dir_exists
    /\ \E listing \in GlobOrders(DOMAIN scenarios) :
         /\ sorted(listing) # <<>>
         /\ scenario_files' = sorted(listing)
    /\ console' = Append(console, [kind |-> "found",
                                   data |-> Len(scenario_files')])
    /\ results' = IF export_file = <<>> THEN <<>> ELSE export_file[1].results
    /\ next_idx' = 1
    /\ pc' = "loop"
    /\ UNCHANGED <<fsvars, tokenized, export_file, uncaught, exit_code>>

\* Mutant of Discover: the run starts by removing the results file of an
\* earlier run.
Discover_ClearsExport ==
    /\ pc = "discover"
    /\ dir_exists
    /\ \E listing \in GlobOrders(DOMAIN scenarios) :
         /\ sorted(listing) # <<>>
         /\ scenario_files' = sorted(listing)
    /\ console' = Append(console, [kind |-> "found",
                                   data |-> Len(scenario_files')])
    /\ results' = <<>>
    /\ next_idx' = 1
    /\ pc' = "loop"
    /\ export_file' = <<>>
    /\ UNCHANGED <<fsvars, tokenized, uncaught, exit_code>>

\* scenario_files = sorted(glob("*.json")) is not empty: print the count,
\* results = [] and enter the loop.
Discover ==
    /\ pc = "discover"
    /\ dir_exists
    /\ \E listing \in GlobOrders(DOMAIN scenarios) :
         /\ sorted(listing) # <<>>
         /\ scenario_files' = sorted(listing)
    /\ console' = Append(console, [kind |-> "found",
                                   data |-> Len(scenario_files')])
    /\ results' = <<>>
    /\ next_idx' = 1
    /\ pc' = "loop"
    /\ UNCHANGED <<fsvars, tokenized, export_file, uncaught, exit_code>>

\* Mutant of EvaluateScenario: a scenario that raised is recorded as a
\* failed result instead of being skipped.
EvaluateScenario_CountsFailure ==
    /\ pc = "loop"
    /\ next_idx <= Len(scenario_files)
    /\ LET scenario_file == scenario_files[next_idx]
           r == run_scenario(scenario_file)
       IN  IF r.raised
           THEN /\ console' = Append(console, [kind |-> "scenario_error",
                                               data |-> scenario_file])
                /\ results' = Append(results,
                       [ScenarioResult(scenarios[scenario_file], 0, 0)
                           EXCEPT !.meets_expectation = FALSE])
           ELSE /\ results' = Append(results, r.value)
                /\ console' = console
    /\ tokenized' = tokenized
                    + tokenized_by(scenarios[scenario_files[next_idx]])
    /\ next_idx' = next_idx + 1
    /\ pc' = IF next_idx' > Len(scenario_files) THEN "report" ELSE "loop"
    /\ UNCHANGED <<fsvars, export_file, scenario_files, uncaught, exit_code>>

\* Mutant of EvaluateScenario: a scenario that raised is skipped without a
\* diagnostic.
EvaluateScenario_SilentSkip ==
    /\ pc = "loop"
    /\ next_idx <= Len(scenario_files)
    /\ LET scenario_file == scenario_files[next_idx]
           r == run_scenario(scenario_file)
       IN  /\ results' = IF r.raised THEN results
                         ELSE Append(results, r.value)
           /\ console' = console
    /\ tokenized' = tokenized
                    + tokenized_by(scenarios[scenario_files[next_idx]])
    /\ next_idx' = next_idx + 1
    /\ pc' = IF next_idx' > Len(scenario_files) THEN "report" ELSE "loop"
    /\ UNCHANGED <<fsvars, export_file, scenario_files, uncaught, exit_code>>

\* Mutant of EvaluateScenario: the first scenario that raises ends the loop.
EvaluateScenario_BreakOnError ==
    /\ pc = "loop"
    /\ next_idx <= Len(scenario_files)
    /\ LET scenario_file == scenario_files[next_idx]
           r == run_scenario(scenario_file)
       IN  /\ results' = IF r.raised THEN results
                         ELSE Append(results, r.value)
           /\ console' = IF r.raised
                         THEN Append(console, [kind |-> "scenario_error",
                                               data |-> scenario_file])
                         ELSE console
           /\ next_idx' = next_idx + 1
           /\ pc' = IF r.raised \/ next_idx' > Len(scenario_files)
                    THEN "report" ELSE "loop"
    /\ tokenized' = tokenized
                    + tokenized_by(scenarios[scenario_files[next_idx]])
    /\ UNCHANGED <<fsvars, export_file, scenario_files, uncaught, exit_code>>

\* One iteration of `for scenario_file in scenario_files`: append the result
\* or print the error and continue; after the last file the loop ends.
EvaluateScenario ==
    /\ pc = "loop"
    /\ next_idx <= Len(scenario_files)
    /\ LET scenario_file == scenario_files[next_idx]
           r == run_scenario(scenario_file)
       IN  IF r.raised
           THEN /\ console' = Append(console, [kind |-> "scenario_error",
                                               data |-> scenario_file])
                /\ results' = results
           ELSE /\ results' = Append(results, r.value)
                /\ console' = console
    /\ tokenized' = tokenized
                    + tokenized_by(scenarios[scenario_files[next_idx]])
    /\ next_idx' = next_idx + 1
    /\ pc' = IF next_idx' > Len(scenario_files) THEN "report" ELSE "loop"
    /\ UNCHANGED <<fsvars, export_file, scenario_files, uncaught, exit_code>>

\* Mutant of PrintResults: main goes from the report straight to the exit
\* status, leaving the export out.
PrintResults_SkipsExport ==
    /\ pc = "report"
    /\ LET p == print_results(results)
       IN  /\ console' = console \o p.printed
           /\ IF p.raised
              THEN Crash(p.error)
              ELSE /\ pc' = "exit"
                   /\ UNCHANGED <<uncaught, exit_code>>
    /\ UNCHANGED <<fsvars, tokenized, export_file, scenario_files, next_idx,
                   results>>

\* Mutant of PrintResults: after the report the failed results are taken
\* out of the list.
PrintResults_DropsFailed ==
    /\ pc = "report"
    /\ LET p == print_results(results)
       IN  /\ console' = console \o p.printed
           /\ IF p.raised
              THEN Crash(p.error)
              ELSE /\ pc' = "export"
                   /\ UNCHANGED <<uncaught, exit_code>>
    /\ results' = SelectSeq(results, LAMBDA r : r.meets_expectation)
    /\ UNCHANGED <<fsvars, tokenized, export_file, scenario_files, next_idx>>

\* print_results(results)
PrintResults ==
    /\ pc = "report"
    /\ LET p == print_results(results)
       IN  /\ console' = console \o p.printed
           /\ IF p.raised
              THEN Crash(p.error)
              ELSE /\ pc' = "export"
                   /\ UNCHANGED <<uncaught, exit_code>>
    /\ UNCHANGED <<fsvars, tokenized, export_file, scenario_files, next_idx,
                   results>>

\* export_json(results, "benchmarks/results.json"): write_text replaces the
\* file's content, then the confirmation is printed.
ExportJson ==
    /\ pc = "export"
    /\ LET output == export_json(results)
       IN  IF output.raised
           THEN /\ Crash(output.error)
                /\ UNCHANGED <<export_file, console>>
           ELSE /\ export_file' = <<output.value>>
                /\ console' = Append(console, [kind |-> "exported",
                                               data |-> <<>>])
                /\ pc' = "exit"
                /\ UNCHANGED <<uncaught, exit_code>>
    /\ UNCHANGED <<fsvars, tokenized, scenario_files, next_idx, results>>

\* Mutant of all_passed: any() in place of all().
all_passed_any(rs) == \E i \in 1..Len(rs) : rs[i].meets_expectation

\* all_passed = all(r['meets_expectation'] for r in results)
all_passed(rs) == \A i \in 1..Len(rs) : rs[i].meets_expectation

\* Mutant of Exit: the exit code follows the first result alone.
Exit_FirstResultOnly ==
    /\ pc = "exit"
    /\ SysExit(IF results[1].meets_expectation THEN 0 ELSE 1)
    /\ UNCHANGED <<fsvars, tokenized, export_file, scenario_files, next_idx,
                   results, console, uncaught>>

\* sys.exit(0 if all_passed else 1)
Exit ==
    /\ pc = "exit"
    /\ SysExit(IF all_passed(results) THEN 0 ELSE 1)
    /\ UNCHANGED <<fsvars, tokenized, export_file, scenario_files, next_idx,
                   results, console, uncaught>>

Next ==
    \/ MissingDirectory
    \/ NoScenarioFiles
    \/ Discover
    \/ EvaluateScenario
    \/ PrintResults
    \/ ExportJson
    \/ Exit

Spec == Init /\ [][Next]_vars

----------------------------------------------------------------------------
(* Runs over directories that also hold malformed descriptor files.        *)

\* The ways a descriptor file is malformed: no JSON document, or a JSON
\* object lacking one of the fields run_scenario reads.
MalformedKinds ==
    {"invalid_json", "no_name", "no_description", "no_baseline_files",
     "no_skills_files", "no_expectedReduction"}

\* The JSON object d without its key k.
Without(d, k) == [x \in DOMAIN d \ {k} |-> d[x]]

\* The text of a descriptor file written like d but malformed in the given
\* way ("none": not at all).
Damaged(d, kind) ==
    CASE kind = "none" -> d
      [] kind = "invalid_json" -> [invalid_json |-> TRUE]
      [] kind = "no_name" -> Without(d, "name")
      [] kind = "no_description" -> Without(d, "description")
      [] kind = "no_baseline_files" -> [d EXCEPT !.baseline = <<>>]
      [] kind = "no_skills_files" -> [d EXCEPT !.skills = <<>>]
      [] kind = "no_expectedReduction" -> Without(d, "expectedReduction")

\* Descriptor files of these runs: well-formed ones over a readable
\* baseline, with readable or unreadable skill files, and malformed ones
\* whose files are all readable.
MixedChoices ==
    [b : {<<"large.md">>},
     s : {<<"small.md", "small.md">>, <<"large.md", "gone.md">>},
     e : Thresholds, defect : {"none"}]
    \cup [b : {<<"large.md">>}, s : {<<"small.md", "small.md">>},
          e : {60}, defect : MalformedKinds]

InitMalformed ==
    /\ dir_exists \in BOOLEAN
    /\ \E S \in SUBSET ScenarioFileNames :
         /\ ~dir_exists => S = {}
         /\ \E c \in [S -> MixedChoices] :
               scenarios = [f \in S |->
                   Damaged(Descriptor(f, c[f].b, c[f].s, c[f].e), c[f].defect)]
    /\ export_file \in {<<>>, <<StaleExport>>}
    /\ export_at_start = export_file
    /\ previous = <<>>
    /\ MainNotStarted
    /\ AsyncNotRun
    /\ TestNotRun

SpecMalformed == InitMalformed /\ [][Next]_vars

----------------------------------------------------------------------------
(* A second run of the script over the unchanged file system.              *)

\* What a finished run leaves to be observed.
Outcome ==
    [results |-> results, console |-> console, exit_code |-> exit_code,
     uncaught |-> uncaught, export_file |-> export_file]

\* The finished script is started again (`if __name__ == "__main__": main()`
\* in a new process): nothing of the first process is left but the file
\* system, which holds what export_json wrote.
Rerun ==
    /\ pc = "done"
    /\ previous = <<>>
    /\ previous' = <<Outcome>>
    /\ export_at_start' = export_file
    /\ pc' = "discover"
    /\ scenario_files' = <<>>
    /\ next_idx' = 1
    /\ results' = <<>>
    /\ console' = <<>>
    /\ uncaught' = ""
    /\ exit_code' = {}
    /\ tokenized' = 0
    /\ UNCHANGED <<dir_exists, scenarios, export_file, asyncvars,
                   testvars>>

NextRerun ==
    \/ Next
    \/ Rerun

SpecRerun == Init /\ [][NextRerun]_vars

----------------------------------------------------------------------------
(* Vocabulary of the properties, stated from the file system alone.        *)

\* Every path of the list can be read and tokenized.
AllReadable(files) == \A i \in 1..Len(files) : files[i] \in DOMAIN FileTokens

\* The text of a descriptor file is a JSON object with every field the
\* descriptor format names.
WellFormed(text) ==
    /\ DOMAIN text =
          {"name", "description", "baseline", "skills", "expectedReduction"}
    /\ "files" \in DOMAIN text.baseline
    /\ "files" \in DOMAIN text.skills

\* The scenario of descriptor file f can be evaluated.
CanEvaluate(f) ==
    /\ WellFormed(scenarios[f])
    /\ AllReadable(scenarios[f].baseline.files)
    /\ AllReadable(scenarios[f].skills.files)

\* The descriptor files whose scenario can be evaluated.
Evaluable == {f \in DOMAIN scenarios : CanEvaluate(f)}

\* Total token count of a readable file list.
RECURSIVE ListTokens(_)
ListTokens(files) ==
    IF files = <<>> THEN 0
    ELSE ListTokens(SubSeq(files, 1, Len(files) - 1))
         + FileTokens[files[Len(files)]]

\* The indices of the result list that hold the result of descriptor file f.
ResultsOf(f) ==
    IF "name" \in DOMAIN scenarios[f]
    THEN {i \in 1..Len(results) : results[i].scenario = scenarios[f].name}
    ELSE {}

\* The indices of the console that hold the report block of descriptor file f.
BlocksOf(f) ==
    IF "name" \in DOMAIN scenarios[f]
    THEN {j \in 1..Len(console) :
            /\ console[j].kind = "scenario"
            /\ console[j].data.scenario = scenarios[f].name}
    ELSE {}

\* The indices of the console that hold the diagnostic of descriptor file f.
ErrorsOf(f) ==
    {j \in 1..Len(console) :
        /\ console[j].kind = "scenario_error"
        /\ console[j].data = f}

\* The indices of the console that hold a summary block.
Summaries == {j \in 1..Len(console) : console[j].kind = "summary"}

\* Some part of the report was printed.
ReportStarted ==
    \E j \in 1..Len(console) :
        console[j].kind \in {"report_header", "scenario", "summary"}

\* export_json wrote the results file in this run.
ExportWritten ==
    \E j \in 1..Len(console) : console[j].kind = "exported"

\* The descriptor files the loop has gone through.
Processed == {scenario_files[k] : k \in 1..(next_idx - 1)} \cap DOMAIN scenarios

\* The sum of the reductions of the first n results.
RECURSIVE ReductionTotal(_, _)
ReductionTotal(rs, n) ==
    IF n = 0 THEN Rat(0, 1)
    ELSE RatAdd(rs[n].reduction_percentage, ReductionTotal(rs, n - 1))

----------------------------------------------------------------------------
(* rate_limiting_example of src/examples/async-examples.py: NumTasks       *)
(* rate_limited_fetch coroutines share asyncio.Semaphore(SemaphoreLimit)   *)
(* and run as tasks under asyncio.gather, their steps in any order.        *)
(* task_pc[t] is the position of task t: "start" before `async with        *)
(* semaphore`, "waiting" in the semaphore's queue, "woken" once release     *)
(* handed it the semaphore, "fetching" inside the guarded block before the *)
(* await, "sleeping" in fetch_user's asyncio.sleep, "done" after the block.*)

\* The benchmark runner is not run: no directory, nothing printed.
BenchNotRun ==
    /\ dir_exists = FALSE
    /\ scenarios = <<>>
    /\ export_file = <<>>
    /\ export_at_start = <<>>
    /\ previous = <<>>
    /\ MainNotStarted

\* semaphore = asyncio.Semaphore(2); tasks = [rate_limited_fetch(i,
\* semaphore) for i in range(1, 6)]
InitSem ==
    /\ BenchNotRun
    /\ AsyncNotRun
    /\ TestNotRun

\* Mutant of Acquire: the task enters the block whatever the semaphore's
\* value.
Acquire_NoWait(t) ==
    /\ task_pc[t] = "start"
    /\ sem_value' = sem_value - 1
    /\ task_pc' = [task_pc EXCEPT ![t] = "fetching"]
    /\ UNCHANGED <<sem_waiters, connected, db_phase, db_log,
                   benchvars, testvars>>

\* `async with semaphore:` (semaphore.acquire()): with a free slot and
\* nobody queued the value is taken at once, else the task queues.
Acquire(t) ==
    /\ task_pc[t] = "start"
    /\ IF sem_value > 0 /\ sem_waiters = <<>>
       THEN /\ sem_value' = sem_value - 1
            /\ task_pc' = [task_pc EXCEPT ![t] = "fetching"]
            /\ UNCHANGED sem_waiters
       ELSE /\ sem_waiters' = Append(sem_waiters, t)
            /\ task_pc' = [task_pc EXCEPT ![t] = "waiting"]
            /\ UNCHANGED sem_value
    /\ UNCHANGED <<connected, db_phase, db_log, benchvars, testvars>>

\* A task the semaphore woke resumes inside acquire() and enters the block.
Resume(t) ==
    /\ task_pc[t] = "woken"
    /\ task_pc' = [task_pc EXCEPT ![t] = "fetching"]
    /\ UNCHANGED <<sem_value, sem_waiters, connected, db_phase, db_log,
                   benchvars, testvars>>

\* print(f"  Fetching user {user_id}..."), then fetch_user(user_id) runs to
\* its await asyncio.sleep(0.1).
Fetch(t) ==
    /\ task_pc[t] = "fetching"
    /\ task_pc' = [task_pc EXCEPT ![t] = "sleeping"]
    /\ UNCHANGED <<sem_value, sem_waiters, connected, db_phase, db_log,
                   benchvars, testvars>>

\* fetch_user returns and the block is left (semaphore.release()): the
\* value goes up by one and, if a task is queued, the first one is handed
\* the semaphore and scheduled.
Release(t) ==
    /\ task_pc[t] = "sleeping"
    /\ IF sem_waiters = <<>>
       THEN /\ sem_value' = sem_value + 1
            /\ task_pc' = [task_pc EXCEPT ![t] = "done"]
            /\ UNCHANGED sem_waiters
       ELSE /\ sem_value' = sem_value
            /\ sem_waiters' = Tail(sem_waiters)
            /\ task_pc' = [task_pc EXCEPT ![t] = "done",
                                          ![Head(sem_waiters)] = "woken"]
    /\ UNCHANGED <<connected, db_phase, db_log, benchvars, testvars>>

\* users = await asyncio.gather(*tasks)
NextSem ==
    \E t \in Tasks :
        \/ Acquire(t)
        \/ Resume(t)
        \/ Fetch(t)
        \/ Release(t)

SpecSem == InitSem /\ [][NextSem]_vars

----------------------------------------------------------------------------
(* AsyncDatabaseConnection of src/examples/async-examples.py: one object,  *)
(* its __aenter__, query and __aexit__ called in any order, each call      *)
(* awaited before the next. connected is self.connected; db_phase is the   *)
(* call in progress ("idle": none); db_log has one entry per call, with    *)
(* self.connected when it started and when it ended and its outcome        *)
(* ("pending" until it ends).                                              *)

\* The entry of a call that starts now.
CallStarted(op, exc) ==
    [op |-> op, exc |-> exc, before |-> connected, after |-> connected,
     outcome |-> "pending"]

\* The log once the call in progress has ended with the given outcome,
\* self.connected being c.
CallEnded(c, outcome) ==
    [db_log EXCEPT ![Len(db_log)] =
        [@ EXCEPT !.after = c, !.outcome = outcome]]

\* db = AsyncDatabaseConnection("mydb")
InitDb ==
    /\ BenchNotRun
    /\ AsyncNotRun
    /\ TestNotRun

\* __aenter__ up to its await: print("Connecting to ...")
aenter_called ==
    /\ db_phase = "idle"
    /\ Len(db_log) < MaxCalls
    /\ db_phase' = "entering"
    /\ db_log' = Append(db_log, CallStarted("__aenter__", FALSE))
    /\ UNCHANGED <<connected, sem_value, sem_waiters, task_pc,
                   benchvars, testvars>>

\* __aenter__ after the sleep: self.connected = True; return self
aenter_returns ==
    /\ db_phase = "entering"
    /\ connected' = TRUE
    /\ db_phase' = "idle"
    /\ db_log' = CallEnded(TRUE, "self")
    /\ UNCHANGED <<sem_value, sem_waiters, task_pc, benchvars, testvars>>

\* __aexit__(exc_type, exc_val, exc_tb) up to its await; exc: the body of
\* the async with raised.
aexit_called(exc) ==
    /\ db_phase = "idle"
    /\ Len(db_log) < MaxCalls
    /\ db_phase' = "exiting"
    /\ db_log' = Append(db_log, CallStarted("__aexit__", exc))
    /\ UNCHANGED <<connected, sem_value, sem_waiters, task_pc,
                   benchvars, testvars>>

\* Mutant of aexit_returns: the connection is left open when the body
\* raised.
aexit_returns_KeepsOnError ==
    /\ db_phase = "exiting"
    /\ connected' = IF db_log[Len(db_log)].exc THEN connected ELSE FALSE
    /\ db_phase' = "idle"
    /\ db_log' = CallEnded(connected', "None")
    /\ UNCHANGED <<sem_value, sem_waiters, task_pc, benchvars, testvars>>

\* __aexit__ after the sleep: self.connected = False; returns None, whatever
\* its arguments.
aexit_returns ==
    /\ db_phase = "exiting"
    /\ connected' = FALSE
    /\ db_phase' = "idle"
    /\ db_log' = CallEnded(FALSE, "None")
    /\ UNCHANGED <<sem_value, sem_waiters, task_pc, benchvars, testvars>>

\* query(sql) up to its await: `if not self.connected: raise RuntimeError`
\* ends the call at once.
query_called ==
    /\ db_phase = "idle"
    /\ Len(db_log) < MaxCalls
    /\ IF ~connected
       THEN /\ db_phase' = "idle"
            /\ db_log' = Append(db_log,
                    [CallStarted("query", FALSE)
                        EXCEPT !.outcome = "RuntimeError"])
       ELSE /\ db_phase' = "querying"
            /\ db_log' = Append(db_log, CallStarted("query", FALSE))
    /\ UNCHANGED <<connected, sem_value, sem_waiters, task_pc,
                   benchvars, testvars>>

\* query after the sleep: return [{"id": 1, "data": "result"}]
query_returns ==
    /\ db_phase = "querying"
    /\ db_phase' = "idle"
    /\ db_log' = CallEnded(connected, "rows")
    /\ UNCHANGED <<connected, sem_value, sem_waiters, task_pc,
                   benchvars, testvars>>

NextDb ==
    \/ aenter_called
    \/ aenter_returns
    \/ \E exc \in BOOLEAN : aexit_called(exc)
    \/ aexit_returns
    \/ query_called
    \/ query_returns

SpecDb == InitDb /\ [][NextDb]_vars

----------------------------------------------------------------------------
(* test_email_validation of src/examples/testing-examples.py: pytest calls *)
(* the test once per parametrized case; the test calls its local           *)
(* validate_email and asserts the result. Strings are sequences of         *)
(* one-character strings. Besides the five cases validate_email is applied *)
(* to every string of at most MaxLen characters over EmailAlphabet, for    *)
(* which the test states no expectation.                                   *)

\* The (email, is_valid) pairs of @pytest.mark.parametrize.
ParametrizedCases ==
    { [email |-> <<"t", "e", "s", "t", "@", "e", "x", "a", "m", "p", "l",
                   "e", ".", "c", "o", "m">>, is_valid |-> TRUE],
      [email |-> <<"i", "n", "v", "a", "l", "i", "d", ".", "e", "m", "a",
                   "i", "l">>, is_valid |-> FALSE],
      [email |-> <<>>, is_valid |-> FALSE],
      [email |-> <<"u", "s", "e", "r", "@", "d", "o", "m", "a", "i", "n",
                   ".", "c", "o", ".", "u", "k">>, is_valid |-> TRUE],
      [email |-> <<"@", "e", "x", "a", "m", "p", "l", "e", ".", "c", "o",
                   "m">>, is_valid |-> FALSE] }

EmailAlphabet == {"@", "a", "."}

\* The strings of at most MaxLen characters over EmailAlphabet.
GeneratedEmails == UNION {[1..n -> EmailAlphabet] : n \in 0..MaxLen}

\* return "@" in email and len(email) > 3
validate_email(e) == (\E i \in 1..Len(e) : e[i] = "@") /\ Len(e) > 3

\* pytest picks a parametrized case, or validate_email is handed a
\* generated string.
InitEmail ==
    /\ BenchNotRun
    /\ AsyncNotRun
    /\ \/ \E c \in ParametrizedCases :
             email = c.email /\ is_valid = {c.is_valid}
       \/ email \in GeneratedEmails /\ is_valid = {}
    /\ test_result = {}
    /\ test_pc = "setup"

\* result = validate_email(email)
CallValidateEmail ==
    /\ test_pc = "setup"
    /\ test_result' = {validate_email(email)}
    /\ test_pc' = "called"
    /\ UNCHANGED <<email, is_valid, benchvars, asyncvars>>

\* assert result == is_valid
AssertResult ==
    /\ test_pc = "called"
    /\ is_valid # {}
    /\ test_pc' = IF test_result = is_valid THEN "passed" ELSE "failed"
    /\ UNCHANGED <<email, is_valid, test_result, benchvars, asyncvars>>

NextEmail ==
    \/ CallValidateEmail
    \/ AssertResult

SpecEmail == InitEmail /\ [][NextEmail]_vars

----------------------------------------------------------------------------
(* C1: when main() has ended, the exit code is 0 if and only if at least   *)
(* one scenario was evaluated successfully and every evaluated scenario    *)
(* has meets_expectation true; in every other case (a scenario below its   *)
(* threshold, nothing evaluated, missing directory, no scenario files) the *)
(* exit code is non-zero.                                                  *)
C1_ExitCodeZeroIffAllPassed ==
    pc = "done" =>
        /\ \E c \in 0..255 : exit_code = {c}
        /\ exit_code = {0} <=>
              /\ dir_exists
              /\ Evaluable # {}
              /\ \A f \in Evaluable :
                    \E i \in ResultsOf(f) : results[i].meets_expectation
              /\ \A i \in 1..Len(results) : results[i].meets_expectation

\* A run over two scenarios that both pass has ended with exit code 0.
C1_Witness ==
    /\ pc = "done"
    /\ exit_code = {0}
    /\ Len(results) = 2
    /\ Cardinality(Evaluable) = 2

(* C2: if the scenarios directory does not exist or holds no descriptor    *)
(* file, main() ends with a non-zero exit status as its first step, no     *)
(* scenario is evaluated, no part of the report is printed and the export  *)
(* file is not written.                                                    *)
C2_FatalDiscoveryFailure ==
    (~dir_exists \/ DOMAIN scenarios = {}) =>
        /\ pc \in {"discover", "done"}
        /\ pc = "discover" => ENABLED (MissingDirectory \/ NoScenarioFiles)
        /\ pc = "done" => exit_code = {1} /\ uncaught = ""
        /\ results = <<>> /\ next_idx = 1
        /\ ~ReportStarted
        /\ ~ExportWritten
        /\ export_file = export_at_start

\* A run over an existing but empty directory has ended; an earlier export
\* is present.
C2_Witness ==
    /\ pc = "done"
    /\ dir_exists
    /\ DOMAIN scenarios = {}
    /\ export_file = <<StaleExport>>
    /\ exit_code = {1}

(* C3: a processed scenario that references an unreadable file has no      *)
(* entry in the result list, in the report or in the exported results, and *)
(* the total, passed and average figures of the report and of the export   *)
(* are those of the evaluated scenarios only: the skipped scenario is      *)
(* counted neither as a pass nor as a fail.                                *)
C3_SkippedScenarioExcluded ==
    /\ \A f \in Processed : ~CanEvaluate(f) =>
          /\ ResultsOf(f) = {}
          /\ BlocksOf(f) = {}
          /\ ExportWritten =>
                \A i \in 1..Len(export_file[1].results) :
                    export_file[1].results[i].scenario # scenarios[f].name
    /\ LET n == Cardinality(Evaluable)
           passing == {f \in Evaluable :
                          \E i \in ResultsOf(f) : results[i].meets_expectation}
           blocks(st) == {j \in 1..Len(console) :
                             /\ console[j].kind = "scenario"
                             /\ console[j].data.status = st}
           mean == RatDivInt(ReductionTotal(results, Len(results)), n)
       IN  /\ \A j \in Summaries :
                /\ console[j].data.total = n
                /\ console[j].data.passed = Cardinality(passing)
                /\ Cardinality(blocks("PASS")) = Cardinality(passing)
                /\ Cardinality(blocks("FAIL")) = n - Cardinality(passing)
                /\ Len(results) = n
                /\ console[j].data.average = Format1f(mean)
           /\ ExportWritten =>
                /\ export_file[1].summary.total_scenarios = n
                /\ export_file[1].summary.passed = Cardinality(passing)
                /\ export_file[1].summary.average_reduction = mean

\* A run in which one scenario was skipped and the other passed has printed
\* its report and written its export.
C3_Witness ==
    /\ pc = "done"
    /\ ExportWritten
    /\ \E f \in Processed : ~CanEvaluate(f)
    /\ Cardinality(Evaluable) = 1
    /\ exit_code = {0}

(* C4: once discovery has found at least one scenario file, per-scenario   *)
(* errors never crash the run: however many scenarios fail to evaluate     *)
(* (all of them included), the run ends with the summary printed, the      *)
(* export written and no uncaught error.                                   *)
C4_ScenarioErrorsNeverCrash ==
    (pc = "done" /\ scenario_files # <<>>) =>
        /\ uncaught = ""
        /\ Summaries # {}
        /\ ExportWritten

(* C5: every result with baseline_tokens > 0 has reduction_percentage      *)
(* equal to (baseline_tokens - skill_tokens) / baseline_tokens * 100; it   *)
(* is negative exactly when skill_tokens > baseline_tokens, and baseline   *)
(* 1000 with skills 400 gives 60.                                          *)
C5_ReductionFormula ==
    \A i \in 1..Len(results) :
        LET r == results[i]
            p == r.reduction_percentage
        IN  r.baseline_tokens > 0 =>
              /\ p.den > 0
              /\ p.num * r.baseline_tokens
                    = (r.baseline_tokens - r.skill_tokens) * 100 * p.den
              /\ p.num < 0 <=> r.skill_tokens > r.baseline_tokens
              /\ (r.baseline_tokens = 1000 /\ r.skill_tokens = 400)
                    => p = [num |-> 60, den |-> 1]

\* The result list holds a 1000 / 400 result and a result whose skill corpus
\* is larger than its baseline.
C5_Witness ==
    \E i, j \in 1..Len(results) :
        /\ results[i].baseline_tokens = 1000
        /\ results[i].skill_tokens = 400
        /\ results[j].baseline_tokens > 0
        /\ results[j].skill_tokens > results[j].baseline_tokens
        /\ results[j].reduction_percentage.num < 0

(* C6: a processed scenario whose baseline token total is 0 (its other     *)
(* files being readable) raises no division error: it has a result with    *)
(* reduction_percentage 0 whatever its skill token total is, and once the  *)
(* report is printed it has its block in the report.                       *)
C6_ZeroBaseline ==
    \A f \in Processed :
        LET d == scenarios[f]
        IN  (/\ AllReadable(d.baseline.files)
             /\ ListTokens(d.baseline.files) = 0
             /\ AllReadable(d.skills.files)) =>
              /\ uncaught = ""
              /\ \E i \in ResultsOf(f) :
                    /\ results[i].baseline_tokens = 0
                    /\ results[i].skill_tokens = ListTokens(d.skills.files)
                    /\ results[i].reduction_percentage = [num |-> 0, den |-> 1]
              /\ pc \in {"export", "exit", "done"} =>
                    \E j \in BlocksOf(f) : console[j].data.reduction = 0

\* A finished run reported a scenario with an empty baseline list and a
\* non-empty skill corpus.
C6_Witness ==
    /\ pc = "done"
    /\ \E f \in Processed :
          /\ scenarios[f].baseline.files = <<>>
          /\ \E i \in ResultsOf(f) : results[i].skill_tokens > 0
          /\ BlocksOf(f) # {}

(* C7: in every result meets_expectation is true if and only if            *)
(* reduction_percentage >= expected_reduction, and expected_reduction is   *)
(* the expectedReduction of the scenario's descriptor; equality passes,    *)
(* and equal baseline and skill totals against a positive threshold fail.  *)
C7_MeetsExpectation ==
    \A i \in 1..Len(results) :
        LET r == results[i]
            p == r.reduction_percentage
        IN  /\ r.meets_expectation <=> p.num >= r.expected_reduction * p.den
            /\ \E f \in DOMAIN scenarios :
                  /\ scenarios[f].name = r.scenario
                  /\ scenarios[f].expectedReduction = r.expected_reduction
            /\ p.num = r.expected_reduction * p.den => r.meets_expectation
            /\ (r.baseline_tokens = r.skill_tokens /\ r.expected_reduction > 0)
                  => ~r.meets_expectation

\* The result list holds a result that meets its threshold with equality
\* and a result with equal totals that fails.
C7_Witness ==
    \E i, j \in 1..Len(results) :
        /\ results[i].reduction_percentage = [num |-> 60, den |-> 1]
        /\ results[i].expected_reduction = 60
        /\ results[i].meets_expectation
        /\ results[j].baseline_tokens = 400
        /\ results[j].skill_tokens = 400
        /\ ~results[j].meets_expectation

\* A console entry is the report block of a result.
IsScenarioBlock(e) == e.kind = "scenario"

(* C8: the scenarios are evaluated one at a time in the sorted order of    *)
(* their descriptor file names, and at every point of the run the result   *)
(* list is, in that order, exactly the results of the scenarios processed  *)
(* so far that evaluated successfully; the report and the export list the  *)
(* results in the same order.                                              *)
C8_SortedOrder ==
    LET n == Len(scenario_files)
        evaluated == SelectSeq(SubSeq(scenario_files, 1, next_idx - 1),
                               CanEvaluate)
        blocks == SelectSeq(console, IsScenarioBlock)
    IN  /\ pc # "discover" =>
              /\ {scenario_files[k] : k \in 1..n} = DOMAIN scenarios
              /\ \A k, l \in 1..n :
                    k < l => scenario_files[k] < scenario_files[l]
        /\ next_idx \in 1..(n + 1)
        /\ pc = "loop" => next_idx <= n
        /\ pc \in {"report", "export", "exit"} => next_idx = n + 1
        /\ Len(results) = Len(evaluated)
        /\ \A i \in 1..Len(results) :
              /\ results[i].scenario = scenarios[evaluated[i]].name
              /\ results[i] = run_scenario(evaluated[i]).value
        /\ ReportStarted =>
              /\ Len(blocks) = Len(results)
              /\ \A i \in 1..Len(results) :
                    blocks[i].data.scenario = results[i].scenario
        /\ ExportWritten => export_file[1].results = results

\* A finished run over the files 1 and 2 evaluated both and exported.
C8_Witness ==
    /\ pc = "done"
    /\ scenario_files = <<1, 2>>
    /\ Len(results) = 2
    /\ ExportWritten

(* C9: in a printed summary the overall status is 'ALL PASS' only if every *)
(* evaluated scenario has meets_expectation true, and it is 'SOME FAILED'  *)
(* if any evaluated scenario failed its expectation.                       *)
C9_OverallStatus ==
    \A j \in Summaries :
        LET status == console[j].data.status
        IN  /\ status \in {"ALL PASS", "SOME FAILED"}
            /\ status = "ALL PASS" =>
                  \A i \in 1..Len(results) : results[i].meets_expectation
            /\ (\E i \in 1..Len(results) : ~results[i].meets_expectation)
                  => status = "SOME FAILED"

\* A summary with one passed and one failed scenario shows 'SOME FAILED'.
C9_Witness ==
    \E j \in Summaries :
        /\ console[j].data.status = "SOME FAILED"
        /\ console[j].data.passed = 1
        /\ console[j].data.total = 2

(* C10: whenever the export file was written it holds exactly the result   *)
(* list of this run and a summary whose total_scenarios is the number of   *)
(* results, whose passed is the number of results with meets_expectation   *)
(* true (0 <= passed <= total_scenarios) and whose average_reduction is    *)
(* the mean of reduction_percentage over those results; nothing of the     *)
(* file's earlier content is left.                                         *)
C10_ExportContent ==
    ExportWritten =>
        /\ Len(export_file) = 1
        /\ LET out == export_file[1]
               n == Len(results)
           IN  /\ DOMAIN out = {"results", "summary"}
               /\ out.results = results
               /\ out.summary.total_scenarios = n
               /\ out.summary.passed =
                     Cardinality({i \in 1..n : results[i].meets_expectation})
               /\ out.summary.passed \in 0..out.summary.total_scenarios
               /\ out.summary.average_reduction =
                     RatDivInt(ReductionTotal(results, n), n)
               /\ out # StaleExport

\* A finished run with one passed and one failed scenario has overwritten
\* the export of an earlier run.
C10_Witness ==
    /\ pc = "done"
    /\ ExportWritten
    /\ export_at_start = <<StaleExport>>
    /\ Len(results) = 2
    /\ export_file[1].summary.passed = 1

\* The phase of main() that prints a console entry of the given kind:
\* discovery, evaluation, report, export.
PhaseOf(kind) ==
    CASE kind \in {"error_no_directory", "error_no_scenarios", "found"} -> 1
      [] kind = "scenario_error" -> 2
      [] kind \in {"report_header", "scenario", "summary"} -> 3
      [] kind = "exported" -> 4

(* C11: the phases of a run happen in the order discovery, evaluation of   *)
(* all scenarios, report, export, exit: the output of a later phase never  *)
(* precedes that of an earlier one, the report is not printed before the   *)
(* last scenario was processed, the export is not written before the       *)
(* report's summary, and the pass/fail exit status (the exit of a run that *)
(* found scenarios and ended without an uncaught error) is not set before  *)
(* the export was written.                                                 *)
C11_PhaseOrder ==
    /\ \A j, k \in 1..Len(console) :
          j < k => PhaseOf(console[j].kind) <= PhaseOf(console[k].kind)
    /\ pc = "discover" => console = <<>> /\ results = <<>>
    /\ (pc = "loop" \/ results # <<>>) =>
          console # <<>> /\ console[1].kind = "found"
    /\ ReportStarted =>
          /\ scenario_files # <<>>
          /\ next_idx = Len(scenario_files) + 1
          /\ pc \in {"export", "exit", "done"}
    /\ (ExportWritten \/ export_file # export_at_start) =>
          /\ Summaries # {}
          /\ ExportWritten
          /\ pc \in {"exit", "done"}
    /\ exit_code # {} <=> pc = "done"
    /\ (exit_code # {} /\ uncaught = "" /\ scenario_files # <<>>) =>
          ExportWritten

\* A finished run printed a scenario error, then the report, then wrote the
\* export and set a failing exit status.
C11_Witness ==
    /\ pc = "done"
    /\ ExportWritten
    /\ exit_code = {1}
    /\ \E j \in 1..Len(console) : console[j].kind = "scenario_error"

(* C12: a second run over the same, unchanged scenario descriptors and     *)
(* input files ends with the same result list, the same printed report     *)
(* and summary, the same export and the same exit code as the first; the   *)
(* second run starts from an empty result list.                            *)
C12_SecondRunIdentical ==
    previous # <<>> =>
        /\ pc = "discover" => results = <<>> /\ console = <<>>
        /\ pc = "done" =>
              /\ results = previous[1].results
              /\ console = previous[1].console
              /\ exit_code = previous[1].exit_code
              /\ uncaught = previous[1].uncaught
              /\ export_file = previous[1].export_file

\* A second run has ended like the first, which exported one passed and one
\* failed scenario over the export of an earlier run.
C12_Witness ==
    /\ previous # <<>>
    /\ pc = "done"
    /\ Len(results) = 2
    /\ exit_code = {1}
    /\ ExportWritten
    /\ export_at_start = previous[1].export_file
    /\ export_at_start # <<StaleExport>>

\* The count_tokens calls that return when every file of S is evaluated once.
RECURSIVE TokenizedOnce(_)
TokenizedOnce(S) ==
    IF S = {} THEN 0
    ELSE LET f == CHOOSE x \in S : TRUE
         IN  tokenized_by(scenarios[f]) + TokenizedOnce(S \ {f})

(* C13: every discovered scenario is accounted for exactly once: a         *)
(* processed scenario file has either exactly one entry in the result list *)
(* or exactly one console diagnostic naming it, never both and never       *)
(* neither; a file not yet processed has none; after the loop every        *)
(* discovered file is processed, and no evaluation is run a second time.   *)
C13_AccountedExactlyOnce ==
    /\ \A f \in DOMAIN scenarios :
          LET accounted == Cardinality(ResultsOf(f)) + Cardinality(ErrorsOf(f))
          IN  /\ f \in Processed => accounted = 1
              /\ f \notin Processed => accounted = 0
              /\ Cardinality(ResultsOf(f)) = 1 <=>
                    (f \in Processed /\ CanEvaluate(f))
    /\ Len(results)
          + Cardinality({j \in 1..Len(console) :
                            console[j].kind = "scenario_error"})
          = Cardinality(Processed)
    /\ (pc \in {"report", "export", "exit"} \/ ReportStarted) =>
          Processed = DOMAIN scenarios
    /\ tokenized = TokenizedOnce(Processed)

\* After the loop one scenario has its result, the other its diagnostic.
C13_Witness ==
    /\ pc = "report"
    /\ \E f, g \in DOMAIN scenarios :
          /\ Cardinality(ResultsOf(f)) = 1 /\ ErrorsOf(f) = {}
          /\ Cardinality(ErrorsOf(g)) = 1 /\ ResultsOf(g) = {}
          /\ ~WellFormed(scenarios[g])

(* C14: for every evaluated scenario baseline_tokens is the sum of the     *)
(* token counts of all paths of baseline.files and skill_tokens the sum    *)
(* over all paths of skills.files, a path listed twice counted twice and   *)
(* an empty list summing to 0; both are integers >= 0; and no step of the  *)
(* run changes a scenario descriptor or the scenario directory.            *)
C14_TokenSums ==
    /\ [](\A f \in Processed : CanEvaluate(f) =>
             /\ ResultsOf(f) # {}
             /\ \A i \in ResultsOf(f) :
                   /\ results[i].baseline_tokens
                         = ListTokens(scenarios[f].baseline.files)
                   /\ results[i].skill_tokens
                         = ListTokens(scenarios[f].skills.files)
                   /\ results[i].baseline_tokens \in Nat
                   /\ results[i].skill_tokens \in Nat
                   /\ scenarios[f].baseline.files = <<>> =>
                         results[i].baseline_tokens = 0)
    /\ [][scenarios' = scenarios /\ dir_exists' = dir_exists]_vars

\* A finished run evaluated a scenario whose skill list names small.md
\* twice and a scenario with an empty baseline list.
C14_Witness ==
    /\ pc = "done"
    /\ \E f \in Processed : \E i \in ResultsOf(f) :
          /\ scenarios[f].skills.files = <<"small.md", "small.md">>
          /\ results[i].skill_tokens = 2 * FileTokens["small.md"]
    /\ \E f \in Processed : \E i \in ResultsOf(f) :
          /\ scenarios[f].baseline.files = <<>>
          /\ results[i].baseline_tokens = 0

(* C15: a malformed scenario descriptor (not parseable, or lacking one of  *)
(* name, description, baseline.files, skills.files, expectedReduction) is  *)
(* handled like any other per-scenario error: it gets its one diagnostic   *)
(* and no result, whether or not its files were tokenized before the       *)
(* missing key was read, it raises nothing out of the loop, and every      *)
(* scenario after it in sorted order is still evaluated.                   *)
C15_MalformedDescriptorSkipped ==
    /\ uncaught \notin {"JSONDecodeError", "KeyError"}
    /\ Len(results) = Cardinality({g \in Processed : CanEvaluate(g)})
    /\ \A k \in 1..Len(scenario_files) :
          LET f == scenario_files[k]
          IN  (k < next_idx /\ ~WellFormed(scenarios[f])) =>
                 /\ Cardinality(ErrorsOf(f)) = 1
                 /\ ResultsOf(f) = {}
                 /\ \A j \in (k + 1)..Len(scenario_files) :
                       LET g == scenario_files[j]
                       IN  /\ j >= next_idx => pc = "loop"
                           /\ (j < next_idx /\ CanEvaluate(g)) =>
                                 Cardinality(ResultsOf(g)) = 1
                           /\ (j < next_idx /\ ~CanEvaluate(g)) =>
                                 Cardinality(ErrorsOf(g)) = 1

\* A finished run: the first descriptor lacks expectedReduction, which is
\* read after its three files were tokenized; it has its diagnostic and no
\* result, and the scenario after it was evaluated and exported.
C15_Witness ==
    /\ pc = "done"
    /\ scenario_files = <<1, 2>>
    /\ "expectedReduction" \notin DOMAIN scenarios[1]
    /\ tokenized_by(scenarios[1]) = 3
    /\ Cardinality(ErrorsOf(1)) = 1
    /\ CanEvaluate(2)
    /\ Len(results) = 1
    /\ ResultsOf(2) = {1}
    /\ ExportWritten

\* The run went through sys.exit(0 if all_passed else 1) of main's last line.
ReachedFinalExit == pc = "done" /\ uncaught = "" /\ ExportWritten

(* C16: in every run that reaches the final exit-status step the exit code *)
(* and the printed overall status marker agree: exactly one summary was    *)
(* printed, the exit code is 0 exactly when it shows 'ALL PASS' and        *)
(* non-zero exactly when it shows 'SOME FAILED'.                           *)
C16_ExitCodeMatchesMarker ==
    /\ pc = "exit" => Cardinality(Summaries) = 1
    /\ ReachedFinalExit =>
          /\ Cardinality(Summaries) = 1
          /\ \E c \in {0, 1} : exit_code = {c}
          /\ \A j \in Summaries :
                /\ exit_code = {0} <=> console[j].data.status = "ALL PASS"
                /\ exit_code # {0} <=> console[j].data.status = "SOME FAILED"

\* A run whose first scenario passed and whose second failed went through
\* the final exit: 'SOME FAILED' and exit code 1.
C16_Witness ==
    /\ ReachedFinalExit
    /\ Len(results) = 2
    /\ results[1].meets_expectation
    /\ ~results[2].meets_expectation
    /\ exit_code = {1}
    /\ \E j \in Summaries : console[j].data.status = "SOME FAILED"

(* C17: in every run that both prints the report and writes the export the *)
(* summary figures agree: the report's total and passed count equal the    *)
(* export's total_scenarios and passed, the report's average reduction is  *)
(* the export's average_reduction at the one decimal the report prints,    *)
(* and both are the figures of the run's result list, which is the list    *)
(* the export holds.                                                       *)
C17_ReportAndExportAgree ==
    (ExportWritten /\ Summaries # {}) =>
        LET summary == export_file[1].summary
            mean == RatDivInt(ReductionTotal(results, Len(results)),
                              Len(results))
        IN  /\ export_file[1].results = results
            /\ summary.average_reduction = mean
            /\ \A j \in Summaries :
                  /\ console[j].data.total = summary.total_scenarios
                  /\ console[j].data.total = Len(results)
                  /\ console[j].data.passed = summary.passed
                  /\ console[j].data.average
                        = Format1f(summary.average_reduction)
                  /\ console[j].data.average = Format1f(mean)

\* Report and export of a run with one passed and one failed scenario whose
\* reductions differ.
C17_Witness ==
    /\ ExportWritten
    /\ \E j \in Summaries :
          /\ console[j].data.total = 2
          /\ console[j].data.passed = 1
          /\ export_file[1].summary.total_scenarios = 2
          /\ export_file[1].summary.passed = 1
    /\ results[1].reduction_percentage # results[2].reduction_percentage

(* C18: the export file is written only in runs where at least one         *)
(* scenario was evaluated successfully: a written export has               *)
(* summary.total_scenarios >= 1 and holds at least one result, the file    *)
(* differs from what the run found only if the run wrote it, and in a run  *)
(* where no scenario can be evaluated the file an earlier run left is      *)
(* never modified.                                                         *)
C18_ExportOnlyWithResults ==
    /\ ExportWritten =>
          /\ export_file[1].summary.total_scenarios >= 1
          /\ Len(export_file[1].results) >= 1
          /\ Processed \cap Evaluable # {}
    /\ export_file # export_at_start => ExportWritten
    /\ Evaluable = {} => export_file = export_at_start /\ ~ExportWritten

\* A run that skipped both its scenarios has ended, on the uncaught
\* ZeroDivisionError of print_results, with the earlier export in place.
C18_Witness ==
    /\ pc = "done"
    /\ Len(scenario_files) = 2
    /\ Evaluable = {}
    /\ Cardinality(Processed) = 2
    /\ uncaught = "ZeroDivisionError"
    /\ export_at_start = <<StaleExport>>
    /\ export_file = <<StaleExport>>

\* The tasks at the given position.
TasksAt(p) == {t \in Tasks : task_pc[t] = p}

\* The tasks inside the semaphore-guarded block.
InsideFetch == TasksAt("fetching") \cup TasksAt("sleeping")

(* C19: in rate_limiting_example, in every interleaving of the five        *)
(* rate_limited_fetch tasks that share Semaphore(2), at most 2 tasks are   *)
(* inside the semaphore-guarded fetch at the same time; the semaphore's    *)
(* value is never negative, and the slots in use and the free value add up *)
(* to 2.                                                                   *)
C19_AtMostTwoInside ==
    /\ Cardinality(InsideFetch) <= SemaphoreLimit
    /\ sem_value \in 0..SemaphoreLimit
    /\ sem_value + Cardinality(InsideFetch) + Cardinality(TasksAt("woken"))
          = SemaphoreLimit

\* Two tasks are inside the block, one of them let in by a release, while
\* another task is still queued.
C19_Witness ==
    /\ Cardinality(InsideFetch) = SemaphoreLimit
    /\ TasksAt("done") # {}
    /\ TasksAt("waiting") # {}
    /\ sem_value = 0

\* The calls of the log that have ended.
EndedCalls == {i \in 1..Len(db_log) : db_log[i].outcome # "pending"}

(* C20: for AsyncDatabaseConnection, over any sequence of __aenter__,      *)
(* query and __aexit__ calls: connected is false on construction and until *)
(* an __aenter__ completes, true after __aenter__ completes, false after   *)
(* __aexit__ completes, also when the async-with body raised; query        *)
(* returns rows exactly when connected was true at the call and otherwise  *)
(* raises RuntimeError, and it never changes connected.                    *)
C20_ConnectionLifecycle ==
    /\ connected \in BOOLEAN
    /\ (\A i \in EndedCalls : db_log[i].op # "__aenter__") => ~connected
    /\ db_log # <<>> => ~db_log[1].before
    /\ \A i \in 1..(Len(db_log) - 1) :
          /\ i \in EndedCalls
          /\ db_log[i + 1].before = db_log[i].after
    /\ (db_phase = "idle" /\ db_log # <<>>) =>
          /\ Len(db_log) \in EndedCalls
          /\ connected = db_log[Len(db_log)].after
    /\ \A i \in EndedCalls :
          LET call == db_log[i]
          IN  /\ call.op = "__aenter__" =>
                    call.after /\ call.outcome = "self"
              /\ call.op = "__aexit__" =>
                    ~call.after /\ call.outcome = "None"
              /\ call.op = "query" =>
                    /\ call.after = call.before
                    /\ call.outcome \in {"rows", "RuntimeError"}
                    /\ call.outcome = "rows" <=> call.before
                    /\ call.outcome = "RuntimeError" <=> ~call.before

\* The calls of an async with whose body raised after a query, then a query
\* on the closed connection: rows, disconnected, RuntimeError.
C20_Witness ==
    /\ db_phase = "idle"
    /\ Len(db_log) = 4
    /\ db_log[1].op = "__aenter__" /\ db_log[1].after
    /\ db_log[2].op = "query" /\ db_log[2].outcome = "rows"
    /\ db_log[3].op = "__aexit__" /\ db_log[3].exc /\ db_log[3].before
    /\ ~db_log[3].after
    /\ db_log[4].op = "query" /\ db_log[4].outcome = "RuntimeError"
    /\ ~connected

\* The string holds no '@'.
WithoutAt(e) == \A i \in 1..Len(e) : e[i] # "@"

\* The string is an address with nothing before its '@'.
NothingBeforeAt(e) == e # <<>> /\ e[1] = "@"

(* C21: the email validator exercised by test_email_validation returns the *)
(* validity the test expects for every input: every parametrized case gets *)
(* the is_valid it names and its assertion never fails, and the validator  *)
(* returns false for a string without '@', for the empty string and for an *)
(* address with nothing before the '@'.                                    *)
C21_ValidatorMeetsExpectation ==
    /\ test_pc # "failed"
    /\ test_result # {} =>
          /\ is_valid # {} => test_result = is_valid
          /\ (WithoutAt(email) \/ email = <<>> \/ NothingBeforeAt(email)) =>
                test_result = {FALSE}

====
